---- MODULE Spec2Model ----
(***************************************************************************)
(* Model of the retrieval pipeline of faster_chat: the embedder and its    *)
(* cache, the Pinecone index, the file-backed vector store, ingestion and  *)
(* deletion of documents, and context retrieval.                           *)
(*                                                                         *)
(* A vector is [dim, dir]: dim is its length (1536 for the embedding       *)
(* model), dir its projection on a fixed plane, which is what the cosine   *)
(* similarity is computed from.  A string the code formats is a sequence   *)
(* of one-character strings.                                               *)
(***************************************************************************)
EXTENDS Integers, Sequences, FiniteSets, TLC

VARIABLES
    embedding_cache,   \* _embedding_cache: insertion-ordered <<text, vector>> pairs
    enc_last,          \* the last _get_embedding call and what it returned
    ret_ever,          \* text -> vectors _get_embedding ever returned for it
    calls_ever,        \* text -> provider calls _get_embedding ever issued for it
    ret_since,         \* text -> vectors returned since the text was last inserted
    calls_since,       \* text -> provider calls since (and with) its last insertion
    inserted_at,       \* text -> its rank by insertion time among the cached texts, 0: not cached
    Document,          \* the Document table: id -> row
    DocumentChunk,     \* the DocumentChunk table: a set of rows
    next_id,           \* the id the next Document row gets
    pinecone_index,    \* the entries of the Pinecone index "faster-chat-docs"
    op_last,           \* the last handler or service call and its outcome
    vector_store,      \* _vector_store: <<chunk id, vector>> pairs in file order
    documents,         \* _documents: chunk id -> [source, content]
    loaded,            \* _vector_store and _documents are not None
    remote_index,      \* dimension of the Pinecone index "faster-chat-docs", 0: none
    pc,                \* thread -> where its EmbeddingsService() call stands
    indexes,           \* thread -> its list_indexes() result held the index name
    outcome,           \* thread -> how its last EmbeddingsService() call ended
    create_requests,   \* create_index requests issued
    inits,             \* EmbeddingsService() calls started
    frames,            \* thread -> its _get_embedding call: position, locals, result
    pinecone_client,   \* _pinecone_client: the instance it holds, 0: None
    index_handle,      \* _pinecone_index: the instance it holds, 0: None
    made,              \* how many Pinecone clients and Index handles were constructed
    holders            \* thread -> position, its self.pinecone, what get_index returned

embVars == <<embedding_cache, enc_last, ret_ever, calls_ever, ret_since, calls_since,
             inserted_at>>

docVars == <<Document, DocumentChunk, next_id, pinecone_index, op_last>>

storeVars == <<vector_store, documents>>

initVars == <<loaded, remote_index, pc, indexes, outcome, create_requests, inits>>

threadVars == <<frames, pinecone_client, index_handle, made, holders>>

vars == <<embVars, docVars, storeVars, initVars, threadVars>>

(***************************************************************************)
(* Bounds                                                                  *)
(***************************************************************************)
\* The cache evicts when it holds more than CacheLimit entries; the code's
\* limit is 1000 (embeddings_service.py:181), scaled down here.
CacheLimit == 1
\* Provider calls counted per text.
MaxCalls == 2
\* Documents uploaded in one run.
MaxDocs == 2
\* Document ids and chunk numbers the chunk id is formatted for.
MaxIdArg == 12
\* The largest max_chunks a retrieval is asked for.
MaxTopK == 3
\* EmbeddingsService() calls started in one run.
MaxInits == 3
\* Message rows a conversation holds.
MaxMessages == 3
\* Characters of an extracted text.
MaxText == 5
\* chunk_size and chunk_overlap of the splitter; the code's are 1500 and 150
\* (document_processor.py:115-116), scaled down here.
ChunkSize == 3
ChunkOverlap == 1

(***************************************************************************)
(* Texts and the embedding provider                                        *)
(***************************************************************************)
T_sky == "The sky is blue."
T_grass == "Grass is green."
Q_sky == "What color is the sky?"
Q_tax == "How are taxes filed?"

Texts == {T_sky, T_grass, Q_sky, Q_tax}

embedding_dimensions == 1536

Vec(n, x, y) == [dim |-> n, dir |-> <<x, y>>]

\* np.zeros(n)
Zeros(n) == Vec(n, 0, 0)

\* client.embeddings.create(input=text, model="text-embedding-3-small") when
\* the provider answers: one fixed vector of the model's length per text.
Embed(text) ==
    CASE text = T_sky -> Vec(embedding_dimensions, 3, 1)
      [] text = T_grass -> Vec(embedding_dimensions, -1, 3)
      [] text = Q_sky -> Vec(embedding_dimensions, 3, 2)
      [] text = Q_tax -> Vec(embedding_dimensions, 1, -3)

(***************************************************************************)
(* The embedding cache (a Python dict: insertion ordered)                  *)
(***************************************************************************)
CacheKeys(cache) == {cache[i][1] : i \in 1..Len(cache)}

InCache(cache, text) == text \in CacheKeys(cache)

CacheGet(cache, text) ==
    LET i == CHOOSE j \in 1..Len(cache) : cache[j][1] = text
    IN  cache[i][2]

\* cache[text] = vector: a present key keeps its place, a new one goes last
CachePut(cache, text, vector) ==
    IF InCache(cache, text)
    THEN [i \in 1..Len(cache) |->
            IF cache[i][1] = text THEN <<text, vector>> ELSE cache[i]]
    ELSE Append(cache, <<text, vector>>)

\* Mutant: the newest key is popped.
CachePopLast(cache) == SubSeq(cache, 1, Len(cache) - 1)

\* cache.pop(next(iter(cache))): the first key in insertion order
CachePopFirst(cache) == Tail(cache)

\* _get_embedding(text) with the provider answering (ok) or failing: the
\* value returned, the cache afterwards, whether the provider was called.
\* raised is whether the call ends in an exception: the except clause
\* catches every failure, so it never does.
GetEmbeddingMiss(cache, text, ok) ==
    IF ok
    THEN LET embedding == Embed(text)
             c1 == IF Len(cache) > CacheLimit THEN CachePopFirst(cache) ELSE cache
         IN  [ret |-> embedding, cache |-> CachePut(c1, text, embedding),
              called |-> TRUE, failed |-> FALSE, raised |-> FALSE]
    ELSE [ret |-> Zeros(embedding_dimensions), cache |-> cache,
          called |-> TRUE, failed |-> TRUE, raised |-> FALSE]

\* Mutant: the cache is never consulted.
GetEmbeddingUncached(cache, text, ok) == GetEmbeddingMiss(cache, text, ok)

GetEmbedding(cache, text, ok) ==
    IF InCache(cache, text)
    THEN [ret |-> CacheGet(cache, text), cache |-> cache,
          called |-> FALSE, failed |-> FALSE, raised |-> FALSE]
    ELSE GetEmbeddingMiss(cache, text, ok)

(***************************************************************************)
(* Embedder specification: calls of _get_embedding                         *)
(***************************************************************************)
NoCall == [text |-> "", ret |-> Zeros(0), called |-> FALSE, failed |-> FALSE,
           raised |-> FALSE, hit |-> FALSE, evicted |-> FALSE, removed |-> {}]

InitEmbedder ==
    /\ embedding_cache = <<>>
    /\ enc_last = NoCall
    /\ ret_ever = [t \in Texts |-> {}]
    /\ calls_ever = [t \in Texts |-> 0]
    /\ ret_since = [t \in Texts |-> {}]
    /\ calls_since = [t \in Texts |-> 0]
    /\ inserted_at = [t \in Texts |-> 0]

\* the rank of the newest cached text: ranks are 1..number of ranked texts
Insertions == Cardinality({t \in Texts : inserted_at[t] # 0})

\* One call _get_embedding(text); ok is whether the provider answers.
\* inserted_at[t] is the rank of t among the cached texts by the time of the
\* insertion that put it in the cache (1: the oldest).
Encode(text, ok) ==
    LET r == GetEmbedding(embedding_cache, text, ok)
        n == IF r.called THEN 1 ELSE 0
        inserted == ~InCache(embedding_cache, text) /\ InCache(r.cache, text)
    IN  /\ calls_ever[text] + n <= MaxCalls
        /\ embedding_cache' = r.cache
        /\ enc_last' = [text |-> text, ret |-> r.ret, called |-> r.called,
                        failed |-> r.failed, raised |-> r.raised,
                        hit |-> InCache(embedding_cache, text),
                        evicted |-> CacheKeys(embedding_cache) \ CacheKeys(r.cache) # {},
                        removed |-> CacheKeys(embedding_cache) \ CacheKeys(r.cache)]
        /\ ret_ever' = [ret_ever EXCEPT ![text] = @ \cup {r.ret}]
        /\ calls_ever' = [calls_ever EXCEPT ![text] = @ + n]
        /\ ret_since' = [ret_since EXCEPT
                            ![text] = IF inserted THEN {r.ret} ELSE @ \cup {r.ret}]
        /\ calls_since' = [calls_since EXCEPT
                            ![text] = IF inserted THEN 1 ELSE @ + n]
        /\ LET at == [t \in Texts |->
                          IF t = text /\ inserted THEN Insertions + 1
                          ELSE IF InCache(r.cache, t) THEN inserted_at[t]
                          ELSE 0]
               gone == CacheKeys(embedding_cache) \ CacheKeys(r.cache)
           IN  inserted_at' = [t \in Texts |->
                                  IF at[t] = 0 THEN 0
                                  ELSE at[t] - Cardinality({u \in gone :
                                                  inserted_at[u] < at[t]})]

EncodeCall == \E text \in Texts, ok \in BOOLEAN : Encode(text, ok)

(***************************************************************************)
(* The vector store and the documents loaded from disk                     *)
(***************************************************************************)
\* What embeddings.json can hold when the service is constructed: nothing
\* (the file is missing), or chunk vectors in file order.  Stored vectors
\* are provider embeddings (non-zero); their length is that of the model
\* the file was built with.
EmbeddingFiles ==
    { <<>>,
      << <<"c1", Vec(1536, 1, 1)>> >>,
      << <<"c1", Vec(1536, -1, 3)>>, <<"c2", Vec(1536, 3, 1)>>,
         <<"c3", Vec(1536, 1, 3)>>, <<"c4", Vec(1536, 6, 2)>> >>,
      << <<"c1", Vec(1536, 1, 3)>>, <<"c2", Vec(1536, 1, 1)>>,
         <<"c3", Vec(1536, 2, 2)>>, <<"c4", Vec(1536, 1, -3)>>,
         <<"c5", Vec(1536, 3, 2)>> >>,
      << <<"c1", Vec(3072, 1, 1)>>, <<"c2", Vec(3072, 3, 1)>> >> }

ChunkIds == {"c1", "c2", "c3", "c4", "c5"}

SourceOf(chunk_id) == IF chunk_id \in {"c1", "c2"} THEN "sky.txt" ELSE "notes.md"

\* What documents.json can hold: nothing, or the text of some chunks.
DocumentFiles ==
    { <<>>,
      [c \in ChunkIds |-> [source |-> SourceOf(c), content |-> c]],
      [c \in {"c1", "c3", "c4"} |-> [source |-> SourceOf(c), content |-> c]] }

(***************************************************************************)
(* Cosine similarity                                                       *)
(***************************************************************************)
Dot(a, b) == a[1] * b[1] + a[2] * b[2]

\* np.dot(q, c) / (np.linalg.norm(q) * np.linalg.norm(c)) as the pair of
\* dot and the squared product of the norms; nan when a norm is zero.
Similarity(q, c) ==
    [nan |-> Dot(q.dir, q.dir) = 0 \/ Dot(c.dir, c.dir) = 0,
     dot |-> Dot(q.dir, c.dir),
     n2 |-> Dot(q.dir, q.dir) * Dot(c.dir, c.dir)]

Sign(x) == IF x > 0 THEN 1 ELSE IF x < 0 THEN -1 ELSE 0

\* a > b for two similarities that are numbers
SimGT(a, b) ==
    /\ ~a.nan /\ ~b.nan
    /\ Sign(a.dot) * a.dot * a.dot * b.n2 > Sign(b.dot) * b.dot * b.dot * a.n2

SimEQ(a, b) ==
    /\ ~a.nan /\ ~b.nan
    /\ Sign(a.dot) * a.dot * a.dot * b.n2 = Sign(b.dot) * b.dot * b.dot * a.n2

\* sim >= pct / 100; a comparison with nan is false
SimGE(sim, pct) ==
    /\ ~sim.nan
    /\ IF pct >= 0
       THEN sim.dot >= 0 /\ sim.dot * sim.dot * 10000 >= pct * pct * sim.n2
       ELSE sim.dot >= 0 \/ sim.dot * sim.dot * 10000 <= pct * pct * sim.n2

(***************************************************************************)
(* get_relevant_context                                                    *)
(***************************************************************************)
\* Where a stable descending sort puts an item among those already placed:
\* before the first one it is greater than.  A comparison with nan is false,
\* so a nan item goes last.
RECURSIVE InsertBySimilarity(_, _, _)
InsertBySimilarity(placed, item, i) ==
    IF i > Len(placed)
    THEN Append(placed, item)
    ELSE IF SimGT(item[2], placed[i][2])
    THEN SubSeq(placed, 1, i - 1) \o <<item>> \o SubSeq(placed, i, Len(placed))
    ELSE InsertBySimilarity(placed, item, i + 1)

RECURSIVE SortFrom(_, _, _)
SortFrom(items, placed, i) ==
    IF i > Len(items) THEN placed
    ELSE SortFrom(items, InsertBySimilarity(placed, items[i], 1), i + 1)

\* Mutant: the store's order is kept.
Unsorted(items) == items

\* sorted(similarities.items(), key=lambda x: x[1], reverse=True): stable,
\* equal similarities keep the store's order
SortedBySimilarity(items) == SortFrom(items, <<>>, 1)

\* seq[:k] for k >= 0
Prefix(seq, k) == SubSeq(seq, 1, IF k < Len(seq) THEN k ELSE Len(seq))

\* Mutant: nothing is filtered out.
AboveFloorAll(items, threshold, i) == SubSeq(items, i, Len(items))

\* [(chunk_id, sim) for chunk_id, sim in top_chunks if sim >= similarity_threshold]
RECURSIVE AboveFloor(_, _, _)
AboveFloor(items, threshold, i) ==
    IF i > Len(items) THEN <<>>
    ELSE (IF SimGE(items[i][2], threshold) THEN <<items[i]>> ELSE <<>>)
            \o AboveFloor(items, threshold, i + 1)

\* the items the format loop writes: if chunk_id in self.documents
RECURSIVE InDocuments(_, _, _)
InDocuments(items, docs, i) ==
    IF i > Len(items) THEN <<>>
    ELSE (IF items[i][1] \in DOMAIN docs THEN <<items[i]>> ELSE <<>>)
            \o InDocuments(items, docs, i + 1)

\* similarities: <<chunk id, similarity to the query>> in the store's order
RECURSIVE Similarities(_, _, _)
Similarities(vs, query_embedding, i) ==
    IF i > Len(vs) THEN <<>>
    ELSE <<<<vs[i][1], Similarity(query_embedding, vs[i][2])>>>>
            \o Similarities(vs, query_embedding, i + 1)

\* the "Document: ... Content: ..." block of each item, in order
RECURSIVE Blocks(_, _, _)
Blocks(items, docs, i) ==
    IF i > Len(items) THEN <<>>
    ELSE <<[chunk_id |-> items[i][1], similarity |-> items[i][2],
            source |-> docs[items[i][1]].source,
            content |-> docs[items[i][1]].content]>>
            \o Blocks(items, docs, i + 1)

\* get_relevant_context(query, max_chunks, similarity_threshold) on the
\* loaded stores; threshold in hundredths.  matches: the <<chunk id,
\* similarity>> pairs left after the slice and the filter; context: the
\* blocks written, in order (<<>> is the empty string); hidden: an
\* exception was caught and turned into the empty string; raised: the call
\* ended in an exception, which its except clause rules out.
GetRelevantContext(vs, docs, cache, query, max_chunks, threshold, ok) ==
    IF vs = <<>> \/ docs = <<>>
    THEN [context |-> <<>>, matches |-> <<>>, cache |-> cache,
          hidden |-> FALSE, degraded |-> FALSE, raised |-> FALSE]
    ELSE LET e == GetEmbedding(cache, query, ok)
             query_embedding == e.ret
         IN  IF \E i \in 1..Len(vs) : vs[i][2].dim # query_embedding.dim
             THEN \* np.dot raises ValueError, the except clause returns ""
                  [context |-> <<>>, matches |-> <<>>, cache |-> e.cache,
                   hidden |-> TRUE, degraded |-> e.failed, raised |-> FALSE]
             ELSE LET similarities == Similarities(vs, query_embedding, 1)
                      sorted == SortedBySimilarity(similarities)
                      sliced == Prefix(sorted, max_chunks)
                      top_chunks == AboveFloor(sliced, threshold, 1)
                      written == InDocuments(top_chunks, docs, 1)
                  IN  [context |-> Blocks(written, docs, 1),
                       matches |-> top_chunks, cache |-> e.cache,
                       hidden |-> FALSE, degraded |-> e.failed, raised |-> FALSE]

Queries == {Q_sky, Q_tax}

\* similarity thresholds, in hundredths
Thresholds == {-50, 0, 70, 95}

\* One call get_relevant_context(query, max_chunks, threshold).
Retrieve(query, max_chunks, threshold, ok) ==
    LET r == GetRelevantContext(vector_store, documents, embedding_cache,
                                query, max_chunks, threshold, ok)
    IN  /\ embedding_cache' = r.cache
        /\ op_last' = [op |-> "get_relevant_context", query |-> query,
                       max_chunks |-> max_chunks, threshold |-> threshold,
                       context |-> r.context, matches |-> r.matches,
                       hidden |-> r.hidden, degraded |-> r.degraded,
                       raised |-> r.raised]
        /\ UNCHANGED <<enc_last, ret_ever, calls_ever, ret_since, calls_since,
                       inserted_at>>
        /\ UNCHANGED <<Document, DocumentChunk, next_id, pinecone_index>>
        /\ UNCHANGED <<storeVars, initVars, threadVars>>

(***************************************************************************)
(* Documents, chunks and the Pinecone index                                *)
(***************************************************************************)
\* a null embedding_id
None == <<>>

Digit(d) ==
    CASE d = 0 -> "0" [] d = 1 -> "1" [] d = 2 -> "2" [] d = 3 -> "3"
      [] d = 4 -> "4" [] d = 5 -> "5" [] d = 6 -> "6" [] d = 7 -> "7"
      [] d = 8 -> "8" [] d = 9 -> "9"

\* str(n) of an int n >= 0, as the sequence of its characters
RECURSIVE Str(_)
Str(n) == IF n < 10 THEN <<Digit(n)>> ELSE Str(n \div 10) \o <<Digit(n % 10)>>

\* Mutant: the chunk number is left out of the id.
ChunkIdOfDocument(document_id, chunk_number) ==
    <<"d", "o", "c", "_">> \o Str(document_id)

\* f"doc_{chunk.document.id}_chunk_{chunk.chunk_number}"
ChunkId(document_id, chunk_number) ==
    <<"d", "o", "c", "_">> \o Str(document_id)
        \o <<"_", "c", "h", "u", "n", "k", "_">> \o Str(chunk_number)

\* Document.save: file_type from the file extension
FileType(ext) ==
    CASE ext = ".pdf" -> "pdf"
      [] ext \in {".doc", ".docx"} -> "word"
      [] ext \in {".txt", ".md"} -> "text"
      [] ext \in {".jpg", ".jpeg", ".png"} -> "image"
      [] OTHER -> "other"

\* What a POST to upload_document carries once the form is valid: a title,
\* a file with one of the extensions clean_file admits, and the chunks
\* split_into_chunks makes of its text.
Uploads ==
    { [title |-> "sky", ext |-> ".txt", chunks |-> <<T_sky>>],
      [title |-> "notes", ext |-> ".md", chunks |-> <<T_grass, T_sky>>] }

\* Mutant: the zero-vector fallback of _get_embedding.
CreateEmbeddingOrZeros(text, ok) ==
    IF ok THEN [raised |-> FALSE, ret |-> Embed(text)]
          ELSE [raised |-> FALSE, ret |-> Zeros(embedding_dimensions)]

\* create_embedding(text): no except clause, a provider failure propagates
CreateEmbedding(text, ok) ==
    IF ok THEN [raised |-> FALSE, ret |-> Embed(text)]
          ELSE [raised |-> TRUE, ret |-> None]

\* index.upsert(vectors=[entry]): the entry replaces the one with its id
Upsert(index, entry) == {e \in index : e.id # entry.id} \cup {entry}

\* index.delete(ids=ids): entries with these ids go, an absent id is skipped
Delete(index, ids) == {e \in index : e.id \notin ids}

\* store_document_chunk(chunk), with the embedding provider and the upsert
\* each answering or raising: the index and the chunk row afterwards.
StoreDocumentChunk(index, chunk, doc, embed_ok, upsert_ok) ==
    LET chunk_id == ChunkId(chunk.document_id, chunk.chunk_number)
        embedding == CreateEmbedding(chunk.content, embed_ok)
        entry == [id |-> chunk_id,
                  values |-> embedding.ret,
                  metadata |-> [document_id |-> Str(chunk.document_id),
                                chunk_number |-> chunk.chunk_number,
                                document_title |-> doc.title,
                                document_type |-> doc.file_type]]
    IN  IF embedding.raised
        THEN [raised |-> TRUE, error |-> "embedding provider error",
              index |-> index, chunk |-> chunk]
        ELSE IF ~upsert_ok
        THEN [raised |-> TRUE, error |-> "pinecone upsert error",
              index |-> index, chunk |-> chunk]
        ELSE [raised |-> FALSE, error |-> "",
              index |-> Upsert(index, entry),
              chunk |-> [chunk EXCEPT !.embedding_id = chunk_id]]

\* Mutant: the chunk rows numbered from the last chunk back.
ProcessReversed(document_id, upload, readable) ==
    IF readable
    THEN [ok |-> TRUE, error |-> "",
          chunks |-> {[document_id |-> document_id,
                       chunk_number |-> Len(upload.chunks) - i,
                       content |-> upload.chunks[i], embedding_id |-> None]
                      : i \in 1..Len(upload.chunks)}]
    ELSE [ok |-> FALSE, error |-> "Error extracting text", chunks |-> {}]

\* DocumentProcessor.process(): the chunk rows it creates, numbered by
\* enumerate; when extraction raises, the document is marked failed.
Process(document_id, upload, readable) ==
    IF readable
    THEN [ok |-> TRUE, error |-> "",
          chunks |-> {[document_id |-> document_id, chunk_number |-> i - 1,
                       content |-> upload.chunks[i], embedding_id |-> None]
                      : i \in 1..Len(upload.chunks)}]
    ELSE [ok |-> FALSE, error |-> "Error extracting text", chunks |-> {}]

ChunksOf(table, document_id) == {c \in table : c.document_id = document_id}

ChunkNumbered(rows, n) == CHOOSE c \in rows : c.chunk_number = n

\* Mutant: a chunk whose store_document_chunk raises is skipped and the loop
\* goes on.
RECURSIVE StoreAllSkipping(_, _, _, _, _, _)
StoreAllSkipping(acc, doc, n, count, fail_at, kind) ==
    IF n >= count
    THEN acc
    ELSE LET chunk == ChunkNumbered(acc.rows, n)
             r == StoreDocumentChunk(acc.index, chunk, doc,
                      ~(fail_at = n /\ kind = "embed"),
                      ~(fail_at = n /\ kind = "upsert"))
             acc1 == [raised |-> FALSE, error |-> "", index |-> r.index,
                      rows |-> (acc.rows \ {chunk}) \cup {r.chunk}]
         IN  StoreAllSkipping(acc1, doc, n + 1, count, fail_at, kind)

\* for chunk in chunks: store_document_chunk(chunk), in chunk_number order from
\* chunk number n on; the call for chunk number fail_at raises (kind says where).
\* acc carries the index and the rows.
RECURSIVE StoreAll(_, _, _, _, _, _)
StoreAll(acc, doc, n, count, fail_at, kind) ==
    IF n >= count
    THEN acc
    ELSE LET chunk == ChunkNumbered(acc.rows, n)
             r == StoreDocumentChunk(acc.index, chunk, doc,
                      ~(fail_at = n /\ kind = "embed"),
                      ~(fail_at = n /\ kind = "upsert"))
             acc1 == [raised |-> r.raised, error |-> r.error, index |-> r.index,
                      rows |-> (acc.rows \ {chunk}) \cup {r.chunk}]
         IN  IF r.raised THEN acc1
             ELSE StoreAll(acc1, doc, n + 1, count, fail_at, kind)

NoOp == [op |-> "none"]

\* Mutant: the view marks the document completed whatever process() returned.
StatusesIgnoringProcess(process_ok, store_raised) ==
    <<"pending", "processing">>
        \o (IF ~process_ok THEN <<"failed", "completed">>
            ELSE IF store_raised THEN <<"failed">>
            ELSE <<"completed">>)

\* The values document.status takes during upload_document, in order: the
\* field's default, 'processing' before the first save, then 'failed' (set
\* by process() or by the view's except clause) or 'completed'.
Statuses(process_ok, store_raised) ==
    <<"pending", "processing">>
        \o (IF ~process_ok THEN <<"failed">>
            ELSE IF store_raised THEN <<"failed">>
            ELSE <<"completed">>)

InitDocs ==
    /\ Document = <<>>
    /\ DocumentChunk = {}
    /\ next_id = 1
    /\ pinecone_index = {}
    /\ op_last = NoOp

\* POST upload_document with a valid form.  readable: extract_text returns;
\* fail_at, kind: the chunk whose store_document_chunk raises, -1 for none.
UploadDocument(upload, readable, fail_at, kind) ==
    LET d == next_id
        doc0 == [title |-> upload.title, file_type |-> FileType(upload.ext),
                 status |-> "processing", error_message |-> ""]
        p == Process(d, upload, readable)
        acc0 == [raised |-> FALSE, error |-> "", index |-> pinecone_index,
                 rows |-> p.chunks]
        s == IF p.ok
             THEN StoreAll(acc0, doc0, 0, Len(upload.chunks), fail_at, kind)
             ELSE acc0
        statuses == Statuses(p.ok, s.raised)
        doc1 == [doc0 EXCEPT !.status = statuses[Len(statuses)],
                             !.error_message = IF ~p.ok THEN p.error ELSE s.error]
    IN  /\ next_id <= MaxDocs
        /\ next_id' = d + 1
        /\ Document' = [i \in DOMAIN Document \cup {d} |->
                           IF i = d THEN doc1 ELSE Document[i]]
        /\ IF p.ok
           THEN /\ DocumentChunk' = DocumentChunk \cup s.rows
                /\ pinecone_index' = s.index
           ELSE UNCHANGED <<DocumentChunk, pinecone_index>>
        /\ op_last' = [op |-> "upload_document", document_id |-> d,
                       chunk_number |-> IF p.ok /\ s.raised THEN fail_at ELSE -1,
                       raised |-> p.ok /\ s.raised,
                       provider_failed |-> p.ok /\ s.raised /\ kind = "embed",
                       process_ok |-> p.ok, statuses |-> statuses]

Upload ==
    \E upload \in Uploads, readable \in BOOLEAN,
       fail_at \in -1..1, kind \in {"embed", "upsert"} :
        /\ fail_at < Len(upload.chunks)
        /\ (fail_at = -1 => kind = "embed")
        /\ UploadDocument(upload, readable, fail_at, kind)
        /\ UNCHANGED <<embVars, storeVars, initVars, threadVars>>

\* store_document_chunk(chunk) called once more on an existing chunk row
StoreAgain ==
    \E chunk \in DocumentChunk, embed_ok \in BOOLEAN, upsert_ok \in BOOLEAN :
        LET r == StoreDocumentChunk(pinecone_index, chunk,
                                    Document[chunk.document_id], embed_ok, upsert_ok)
        IN  /\ pinecone_index' = r.index
            /\ DocumentChunk' = (DocumentChunk \ {chunk}) \cup {r.chunk}
            /\ op_last' = [op |-> "store_document_chunk",
                           document_id |-> chunk.document_id,
                           chunk_number |-> chunk.chunk_number,
                           raised |-> r.raised, provider_failed |-> ~embed_ok,
                           again |-> chunk.embedding_id # None]
            /\ UNCHANGED <<Document, next_id, embVars, storeVars, initVars, threadVars>>

\* Mutant: the embedding ids of every chunk row, whatever its document.
EmbeddingIdsOfAll(table, document_id) ==
    {c.embedding_id : c \in {x \in table : x.embedding_id # None}}

\* [chunk.embedding_id for chunk in chunks if chunk.embedding_id]
EmbeddingIds(table, document_id) ==
    {c.embedding_id : c \in {x \in ChunksOf(table, document_id) : x.embedding_id # None}}

\* Mutant: an index.delete that raises is swallowed.
DeleteDocumentEmbeddingsQuiet(index, table, document_id, index_ok) ==
    LET embedding_ids == EmbeddingIds(table, document_id)
    IN  IF embedding_ids = {}
        THEN [raised |-> FALSE, index |-> index, ids |-> embedding_ids]
        ELSE IF index_ok
        THEN [raised |-> FALSE, index |-> Delete(index, embedding_ids),
              ids |-> embedding_ids]
        ELSE [raised |-> FALSE, index |-> index, ids |-> embedding_ids]

\* delete_document_embeddings(document_id); index_ok: index.delete answers
DeleteDocumentEmbeddings(index, table, document_id, index_ok) ==
    LET embedding_ids == EmbeddingIds(table, document_id)
    IN  IF embedding_ids = {}
        THEN [raised |-> FALSE, index |-> index, ids |-> embedding_ids]
        ELSE IF index_ok
        THEN [raised |-> FALSE, index |-> Delete(index, embedding_ids),
              ids |-> embedding_ids]
        ELSE [raised |-> TRUE, index |-> index, ids |-> embedding_ids]

\* POST delete_document(doc_id); file_ok: document.file.delete returns.
\* An exception at any step is caught and reported with messages.error
\* (reported); what was done stays.
DeleteDocument(d, index_ok, file_ok) ==
    LET r == DeleteDocumentEmbeddings(pinecone_index, DocumentChunk, d, index_ok)
        deleted == ~r.raised /\ file_ok
    IN  /\ pinecone_index' = r.index
        /\ Document' = IF deleted
                       THEN [i \in DOMAIN Document \ {d} |-> Document[i]]
                       ELSE Document
        /\ DocumentChunk' = IF deleted
                            THEN DocumentChunk \ ChunksOf(DocumentChunk, d)
                            ELSE DocumentChunk
        /\ op_last' = [op |-> "delete_document", document_id |-> d,
                       ids |-> IF r.ids = {} THEN "no ids"
                               ELSE IF r.ids \cap {e.id : e \in pinecone_index} = {}
                               THEN "none present"
                               ELSE "some present",
                       index_ok |-> index_ok,
                       raised |-> r.raised,
                       status |-> Document[d].status,
                       deleted |-> deleted,
                       reported |-> ~deleted]
        /\ UNCHANGED <<next_id, embVars, storeVars, initVars, threadVars>>

Delete_document ==
    \E d \in DOMAIN Document, index_ok \in BOOLEAN, file_ok \in BOOLEAN :
        DeleteDocument(d, index_ok, file_ok)

\* The state once an EmbeddingsService has been constructed: the stores
\* hold what the files held.
InitStores ==
    /\ vector_store \in {<<>>, << <<"c1", Vec(1536, 1, 1)>> >>}
    /\ documents = IF vector_store = <<>> THEN <<>>
                   ELSE [c \in ChunkIds |-> [source |-> SourceOf(c), content |-> c]]

(***************************************************************************)
(* EmbeddingsService.__init__ and _ensure_index_exists, by request threads *)
(***************************************************************************)
Threads == {"t1", "t2"}

\* dimensions an index named "faster-chat-docs" can already have: that of
\* text-embedding-3-small, or that of text-embedding-3-large
large_dimensions == 3072

\* self.index_name not in indexes
NameMissing(listed) == ~listed

\* no _get_embedding call in progress, no client and no handle constructed
Idle == [pc |-> "idle", text |-> "", key |-> "", result |-> "none"]

NoHandle == [pc |-> "idle", pinecone |-> 0, index |-> 0]

InitThreads ==
    /\ frames = [t \in Threads |-> Idle]
    /\ pinecone_client = 0
    /\ index_handle = 0
    /\ made = [clients |-> 0, handles |-> 0]
    /\ holders = [t \in Threads |-> NoHandle]

\* EmbeddingsService(): the globals are loaded when they are None
\* (_load_vector_store, _load_documents read whatever the files hold)
BeginInit(t) ==
    /\ pc[t] = "idle"
    /\ inits < MaxInits
    /\ inits' = inits + 1
    /\ pc' = [pc EXCEPT ![t] = "ensure"]
    /\ outcome' = [outcome EXCEPT ![t] = "running"]
    /\ IF loaded
       THEN UNCHANGED <<vector_store, documents>>
       ELSE /\ vector_store' \in EmbeddingFiles
            /\ documents' \in DocumentFiles
    /\ loaded' = TRUE
    /\ UNCHANGED <<remote_index, indexes, create_requests, embVars, docVars,
                   threadVars>>

\* indexes = [index.name for index in self.pinecone.list_indexes()]; the
\* request can fail, and the exception is raised again
ListIndexes(t, list_ok) ==
    /\ pc[t] = "ensure"
    /\ IF list_ok
       THEN /\ indexes' = [indexes EXCEPT ![t] = remote_index # 0]
            /\ pc' = [pc EXCEPT ![t] = "listed"]
            /\ UNCHANGED outcome
       ELSE /\ pc' = [pc EXCEPT ![t] = "idle"]
            /\ outcome' = [outcome EXCEPT ![t] = "list_indexes failed"]
            /\ UNCHANGED indexes
    /\ UNCHANGED <<loaded, remote_index, create_requests, inits, storeVars,
                   embVars, docVars, threadVars>>

\* if self.index_name not in indexes: create_index(...); the service refuses
\* a name that exists, and the exception is raised again
EnsureIndex(t) ==
    /\ pc[t] = "listed"
    /\ pc' = [pc EXCEPT ![t] = "idle"]
    /\ IF NameMissing(indexes[t])
       THEN /\ create_requests' = create_requests + 1
            /\ IF remote_index = 0
               THEN /\ remote_index' = embedding_dimensions
                    /\ outcome' = [outcome EXCEPT ![t] = "constructed"]
               ELSE /\ outcome' = [outcome EXCEPT ![t] = "create_index failed: exists"]
                    /\ UNCHANGED remote_index
       ELSE /\ outcome' = [outcome EXCEPT ![t] = "constructed"]
            /\ UNCHANGED <<remote_index, create_requests>>
    /\ UNCHANGED <<loaded, indexes, inits, storeVars, embVars, docVars, threadVars>>

Begin == \E t \in Threads : BeginInit(t)

List == \E t \in Threads, list_ok \in BOOLEAN : ListIndexes(t, list_ok)

Ensure == \E t \in Threads : EnsureIndex(t)

\* the state once an EmbeddingsService has been constructed
InitConstructed ==
    /\ InitThreads
    /\ loaded = TRUE
    /\ remote_index = embedding_dimensions
    /\ pc = [t \in Threads |-> "idle"]
    /\ indexes = [t \in Threads |-> TRUE]
    /\ outcome = [t \in Threads |-> "none"]
    /\ create_requests = 0
    /\ inits = 0

\* the process has started, nothing is constructed; the index may exist
InitInit ==
    /\ InitEmbedder
    /\ InitDocs
    /\ InitThreads
    /\ vector_store = <<>>
    /\ documents = <<>>
    /\ loaded = FALSE
    /\ remote_index \in {0, embedding_dimensions, large_dimensions}
    /\ pc = [t \in Threads |-> "idle"]
    /\ indexes = [t \in Threads |-> FALSE]
    /\ outcome = [t \in Threads |-> "none"]
    /\ create_requests = 0
    /\ inits = 0

NextInit == Begin \/ List \/ Ensure

SpecInit == InitInit /\ [][NextInit]_vars

InitIngest ==
    InitEmbedder /\ InitDocs /\ InitConstructed /\ vector_store = <<>> /\ documents = <<>>

(***************************************************************************)
(* Ingestion specification: uploads and repeated stores                    *)
(***************************************************************************)
Next == Upload \/ StoreAgain

Spec == InitIngest /\ [][Next]_vars

(***************************************************************************)
(* Deletion specification: uploads and deletions                           *)
(***************************************************************************)
NextDelete == Upload \/ Delete_document

SpecDelete == InitIngest /\ [][NextDelete]_vars

(***************************************************************************)
(* End-to-end specification: uploads, then chat retrievals                 *)
(***************************************************************************)
\* A chat request's retrieval: the probe of is_answer_in_documents
\* (max_chunks=2) or the retrieval of generate_response (max_chunks=3),
\* both with the default threshold 0.7.
Query ==
    \E query \in Queries, max_chunks \in {2, 3}, ok \in BOOLEAN :
        Retrieve(query, max_chunks, 70, ok)

NextE2E == Upload \/ Query

InitE2E == InitEmbedder /\ InitDocs /\ InitConstructed /\ InitStores

SpecE2E == InitE2E /\ [][NextE2E]_vars

(***************************************************************************)
(* Retrieval specification: get_relevant_context over any loaded files     *)
(***************************************************************************)
InitRetr ==
    /\ InitEmbedder
    /\ InitDocs
    /\ InitConstructed
    /\ vector_store \in EmbeddingFiles
    /\ documents \in DocumentFiles

RetrieveAny ==
    \E query \in Queries, max_chunks \in 0..MaxTopK,
       threshold \in Thresholds, ok \in BOOLEAN :
        Retrieve(query, max_chunks, threshold, ok)

NextRetr == RetrieveAny

SpecRetr == InitRetr /\ [][NextRetr]_vars

InitEmb ==
    InitEmbedder /\ InitDocs /\ InitConstructed /\ vector_store = <<>> /\ documents = <<>>

NextEmb == EncodeCall /\ UNCHANGED <<docVars, storeVars, initVars, threadVars>>

SpecEmb == InitEmb /\ [][NextEmb]_vars

(***************************************************************************)
(* OpenAIService and RAGService.ask                                        *)
(***************************************************************************)
\* str.upper() on the letters the replies are written with
Upper(ch) ==
    CASE ch = "y" -> "Y" [] ch = "e" -> "E" [] ch = "s" -> "S"
      [] ch = "n" -> "N" [] ch = "o" -> "O" [] OTHER -> ch

\* Mutant: the case of the reply is kept.
StrSame(str, i) == SubSeq(str, i, Len(str))

RECURSIVE StrUpper(_, _)
StrUpper(str, i) ==
    IF i > Len(str) THEN <<>> ELSE <<Upper(str[i])>> \o StrUpper(str, i + 1)

IsSpace(ch) == ch \in {" ", "\n"}

RECURSIVE LStrip(_)
LStrip(str) ==
    IF str # <<>> /\ IsSpace(Head(str)) THEN LStrip(Tail(str)) ELSE str

RECURSIVE RStrip(_)
RStrip(str) ==
    IF str # <<>> /\ IsSpace(str[Len(str)])
    THEN RStrip(SubSeq(str, 1, Len(str) - 1)) ELSE str

\* str.strip()
Strip(str) == RStrip(LStrip(str))

\* sub in str
Contains(str, sub) ==
    \E i \in 1..(Len(str) - Len(sub) + 1) : SubSeq(str, i, i + Len(sub) - 1) = sub

\* What chat.completions.create can do: raise, or answer with a content.
Replies ==
    { [kind |-> "error", text |-> <<>>] } \cup
    { [kind |-> "content", text |-> t] :
        t \in { <<>>, <<"Y", "E", "S">>, <<"y", "e", "s">>, <<"Y", "e", "s", ".">>,
                <<" ", "y", "E", "s", "\n">>, <<"N", "O">>, <<"n", "o">>,
                <<"e", "y", "e", "s">>, <<"Y", "E", " ", "S">>, <<"N", "o", ".">> } }

\* Mutant: the evaluator is asked whatever the context is.
IsAnswerInDocumentsAsked(vs, docs, cache, query, embed_ok, reply) ==
    LET r == GetRelevantContext(vs, docs, cache, query, 2, 70, embed_ok)
    IN  [ret |-> reply.kind = "content"
                 /\ Contains(StrUpper(Strip(reply.text), 1), <<"Y", "E", "S">>),
         raised |-> reply.kind = "error", chat_calls |-> 1,
         context |-> r.context, cache |-> r.cache, degraded |-> r.degraded]

\* is_answer_in_documents(query): the probe retrieval with max_chunks=2 and
\* the default threshold, then the evaluator call.  chat_calls counts the
\* chat.completions.create calls issued.
IsAnswerInDocuments(vs, docs, cache, query, embed_ok, reply) ==
    LET r == GetRelevantContext(vs, docs, cache, query, 2, 70, embed_ok)
    IN  IF r.context = <<>>
        THEN [ret |-> FALSE, raised |-> FALSE, chat_calls |-> 0,
              context |-> r.context, cache |-> r.cache, degraded |-> r.degraded]
        ELSE IF reply.kind = "error"
        THEN [ret |-> FALSE, raised |-> TRUE, chat_calls |-> 1,
              context |-> r.context, cache |-> r.cache, degraded |-> r.degraded]
        ELSE [ret |-> Contains(StrUpper(Strip(reply.text), 1), <<"Y", "E", "S">>),
              raised |-> FALSE, chat_calls |-> 1,
              context |-> r.context, cache |-> r.cache, degraded |-> r.degraded]

\* the system message generate_response builds around a context
GroundedSystemMessage(context) ==
    [role |-> "system", content |-> <<"answer based on provided documents", context>>]

RECURSIVE FirstSystem(_, _)
FirstSystem(messages, i) ==
    IF i > Len(messages) THEN 0
    ELSE IF messages[i].role = "system" THEN i
    ELSE FirstSystem(messages, i + 1)

\* the system message replaced, or inserted at the beginning
Splice(messages, system_message) ==
    LET system_index == FirstSystem(messages, 1)
    IN  IF system_index # 0
        THEN SubSeq(messages, 1, system_index - 1) \o <<system_message>>
                \o SubSeq(messages, system_index + 1, Len(messages))
        ELSE <<system_message>> \o messages

\* Mutant: messages_copy = messages, one list under two names.
MessagesAssigned(messages) ==
    [messages |-> messages, messages_copy |-> messages, same_list |-> TRUE]

\* messages_copy = messages.copy(): the caller's list and a new list of the
\* same elements
MessagesCopy(messages) ==
    [messages |-> messages, messages_copy |-> messages, same_list |-> FALSE]

\* messages_copy[system_index] = system_message, or
\* messages_copy.insert(0, system_message): what both lists hold afterwards
SpliceCopy(lists, system_message) ==
    LET spliced == Splice(lists.messages_copy, system_message)
    IN  [messages |-> IF lists.same_list THEN spliced ELSE lists.messages,
         messages_copy |-> spliced, same_list |-> lists.same_list]

\* generate_response(messages, query, temperature): query "" is no query.
\* Every exception is caught and becomes the error string.  messages: the
\* caller's list when the call returns.
GenerateResponse(vs, docs, cache, messages, query, temperature, embed_ok, reply) ==
    LET retrieved == query # ""
        r == IF retrieved
             THEN GetRelevantContext(vs, docs, cache, query, 3, 70, embed_ok)
             ELSE [context |-> <<>>, cache |-> cache]
        spliced == retrieved /\ r.context # <<>>
        copied == MessagesCopy(messages)
        lists == IF spliced
                 THEN SpliceCopy(copied, GroundedSystemMessage(r.context))
                 ELSE copied
    IN  [ret |-> IF reply.kind = "error"
                 THEN [kind |-> "error", text |-> <<"Error generating response: ">>]
                 ELSE [kind |-> "text", text |-> Strip(reply.text)],
         sent |-> lists.messages_copy, messages |-> lists.messages,
         context |-> r.context,
         temperature |-> temperature,
         retrieved |-> IF retrieved THEN query ELSE "", spliced |-> spliced,
         cache |-> r.cache, chat_calls |-> 1]

\* Message rows a conversation can hold when ask is called; a content is the
\* sequence of its parts
Conversations ==
    { << [role |-> "user", content |-> <<"question">>] >>,
      << [role |-> "system", content |-> <<"custom system prompt">>],
         [role |-> "user", content |-> <<"question">>] >>,
      << [role |-> "user", content |-> <<"earlier question">>],
         [role |-> "assistant", content |-> <<"earlier answer">>],
         [role |-> "user", content |-> <<"question">>] >> }

\* {"role": msg.role, "content": msg.content} for msg in db_messages
RECURSIVE OpenAIMessages(_, _)
OpenAIMessages(db_messages, i) ==
    IF i > Len(db_messages) THEN <<>>
    ELSE << [role |-> db_messages[i].role, content |-> db_messages[i].content] >>
            \o OpenAIMessages(db_messages, i + 1)

\* Mutant: the default system message is put first whatever the rows hold.
GetConversationMessagesAlways(db_messages) ==
    << [role |-> "system", content |-> <<"default system prompt">>] >>
        \o OpenAIMessages(db_messages, 1)

\* _get_conversation_messages: a default system message is put first when
\* the conversation has none
GetConversationMessages(db_messages) ==
    IF \E i \in 1..Len(db_messages) : db_messages[i].role = "system"
    THEN OpenAIMessages(db_messages, 1)
    ELSE << [role |-> "system", content |-> <<"default system prompt">>] >>
            \o OpenAIMessages(db_messages, 1)

\* Mutant: one temperature for both modes.
TemperatureFixed(has_document_answer) == 70

\* temperature=0.5 if has_document_answer else 0.7, in hundredths
Temperature(has_document_answer) == IF has_document_answer THEN 50 ELSE 70

\* query=query if has_document_answer else ""
QueryFor(has_document_answer, query) == IF has_document_answer THEN query ELSE ""

\* RAGService.ask(conversation, query), in the three stretches that end at
\* its provider calls.  op_last holds the call and what it has done so far;
\* stage says where it stands: "deciding", "generating", then "returned" or
\* "raised".
AskRunning == op_last.op = "ask" /\ op_last.stage \in {"deciding", "generating"}

\* messages = self._get_conversation_messages(conversation)
AskBegin(db_messages, query) ==
    /\ ~AskRunning
    /\ op_last' = [op |-> "ask", stage |-> "deciding", query |-> query,
                   messages |-> GetConversationMessages(db_messages)]
    /\ UNCHANGED <<embVars, storeVars, initVars, threadVars>>
    /\ UNCHANGED <<Document, DocumentChunk, next_id, pinecone_index>>

\* has_document_answer = self.openai_service.is_answer_in_documents(query);
\* embed_ok: the embedding provider answers, decide_reply: what
\* chat.completions.create does.  ask has no try: what is_answer_in_documents
\* raises leaves ask.
AskDecide(embed_ok, decide_reply) ==
    LET d == IsAnswerInDocuments(vector_store, documents, embedding_cache,
                                 op_last.query, embed_ok, decide_reply)
    IN  /\ op_last.op = "ask" /\ op_last.stage = "deciding"
        /\ embedding_cache' = d.cache
        /\ op_last' = [op |-> "ask",
                       stage |-> IF d.raised THEN "raised" ELSE "generating",
                       query |-> op_last.query, messages |-> op_last.messages,
                       context |-> d.context, degraded |-> d.degraded,
                       decide_reply |-> decide_reply, decisions |-> 1,
                       decide_calls |-> d.chat_calls,
                       has_document_answer |-> d.ret]
        /\ UNCHANGED <<enc_last, ret_ever, calls_ever, ret_since, calls_since,
                       inserted_at>>
        /\ UNCHANGED <<Document, DocumentChunk, next_id, pinecone_index>>
        /\ UNCHANGED <<storeVars, initVars, threadVars>>

\* response = self.openai_service.generate_response(...);
\* return response, has_document_answer
AskGenerate(embed_ok, reply) ==
    LET has_document_answer == op_last.has_document_answer
        g == GenerateResponse(vector_store, documents, embedding_cache,
                              op_last.messages,
                              QueryFor(has_document_answer, op_last.query),
                              Temperature(has_document_answer), embed_ok, reply)
    IN  /\ op_last.op = "ask" /\ op_last.stage = "generating"
        /\ embedding_cache' = g.cache
        /\ op_last' = [op |-> "ask", stage |-> "returned",
                       query |-> op_last.query, messages |-> g.messages,
                       context |-> op_last.context, degraded |-> op_last.degraded,
                       decide_reply |-> op_last.decide_reply,
                       decisions |-> op_last.decisions,
                       decide_calls |-> op_last.decide_calls,
                       has_document_answer |-> has_document_answer,
                       generate_calls |-> g.chat_calls,
                       response |-> g.ret, used_documents |-> has_document_answer,
                       temperature |-> g.temperature, sent |-> g.sent,
                       retrieved |-> g.retrieved, spliced |-> g.spliced]
        /\ UNCHANGED <<enc_last, ret_ever, calls_ever, ret_since, calls_since,
                       inserted_at>>
        /\ UNCHANGED <<Document, DocumentChunk, next_id, pinecone_index>>
        /\ UNCHANGED <<storeVars, initVars, threadVars>>

Begin_ask ==
    \E db_messages \in Conversations, query \in Queries : AskBegin(db_messages, query)

Decide == \E embed_ok \in BOOLEAN, decide_reply \in Replies : AskDecide(embed_ok, decide_reply)

Generate == \E embed_ok \in BOOLEAN, reply \in Replies : AskGenerate(embed_ok, reply)

NextAsk == Begin_ask \/ Decide \/ Generate

SpecAsk == InitRetr /\ [][NextAsk]_vars

(***************************************************************************)
(* DocumentProcessor._clean_text                                           *)
(***************************************************************************)
\* extracted texts, as sequences of characters: two letters, the full
\* stop, the space, the newline
RawTexts == UNION { [1..n -> {"a", "b", ".", " ", "\n"}] : n \in 0..MaxText }

\* how many times ch stands in a row in text from position i on
RECURSIVE RunLength(_, _, _)
RunLength(text, i, ch) ==
    IF i > Len(text) \/ text[i] # ch THEN 0 ELSE 1 + RunLength(text, i + 1, ch)

RECURSIVE Repeat(_, _)
Repeat(ch, n) == IF n <= 0 THEN <<>> ELSE <<ch>> \o Repeat(ch, n - 1)

\* re.sub of ch{at_least,} by ch repeated kept times, from position i on:
\* every longest run of at_least or more is replaced, a shorter one stays
RECURSIVE ReSubRuns(_, _, _, _, _)
ReSubRuns(text, i, ch, at_least, kept) ==
    IF i > Len(text) THEN <<>>
    ELSE IF text[i] = ch
    THEN LET run == RunLength(text, i, ch)
         IN  (IF run >= at_least THEN Repeat(ch, kept) ELSE Repeat(ch, run))
                \o ReSubRuns(text, i + run, ch, at_least, kept)
    ELSE <<text[i]>> \o ReSubRuns(text, i + 1, ch, at_least, kept)

\* text.split('\n') from position i on; line is the line being read
RECURSIVE SplitLines(_, _, _)
SplitLines(text, i, line) ==
    IF i > Len(text) THEN <<line>>
    ELSE IF text[i] = "\n" THEN <<line>> \o SplitLines(text, i + 1, <<>>)
    ELSE SplitLines(text, i + 1, Append(line, text[i]))

\* [line.strip() for line in lines]
RECURSIVE StripEach(_, _)
StripEach(lines, i) ==
    IF i > Len(lines) THEN <<>>
    ELSE <<Strip(lines[i])>> \o StripEach(lines, i + 1)

\* '\n'.join(lines)
RECURSIVE JoinLines(_, _)
JoinLines(lines, i) ==
    IF i > Len(lines) THEN <<>>
    ELSE IF i = Len(lines) THEN lines[i]
    ELSE lines[i] \o <<"\n">> \o JoinLines(lines, i + 1)

\* _clean_text(text): the two substitutions, then every line stripped
CleanText(text) ==
    LET newlines == ReSubRuns(text, 1, "\n", 3, 2)
        spaces == ReSubRuns(newlines, 1, " ", 2, 1)
        lines == StripEach(SplitLines(spaces, 1, <<>>), 1)
    IN  JoinLines(lines, 1)

\* a text, before _clean_text is called on it
InitClean ==
    /\ InitEmbedder
    /\ InitConstructed
    /\ vector_store = <<>> /\ documents = <<>>
    /\ Document = <<>> /\ DocumentChunk = {} /\ next_id = 1 /\ pinecone_index = {}
    /\ op_last \in {[op |-> "text", ret |-> t] : t \in RawTexts}

\* text = self._clean_text(text), on a raw text or on what the last call
\* returned
CleanCall ==
    /\ op_last.op \in {"text", "_clean_text"}
    /\ op_last' = [op |-> "_clean_text", text |-> op_last.ret,
                   ret |-> CleanText(op_last.ret),
                   cleaned_before |-> op_last.op = "_clean_text"]
    /\ UNCHANGED <<Document, DocumentChunk, next_id, pinecone_index>>
    /\ UNCHANGED <<embVars, storeVars, initVars, threadVars>>

NextClean == CleanCall

SpecClean == InitClean /\ [][NextClean]_vars

(***************************************************************************)
(* DocumentProcessor.split_into_chunks                                     *)
(*                                                                         *)
(* split_into_chunks hands the cleaned text to langchain's                 *)
(* RecursiveCharacterTextSplitter, built with chunk_size, chunk_overlap,   *)
(* length_function=len and the separators below; keep_separator and        *)
(* strip_whitespace are left at the library's defaults (both true).  The   *)
(* operators follow split_text for that configuration.                     *)
(***************************************************************************)
\* separators=["\n\n", "\n", ". ", " ", ""]
Separators == << <<"\n", "\n">>, <<"\n">>, <<".", " ">>, <<" ">>, <<>> >>

\* separator stands in text at position i
MatchAt(text, separator, i) ==
    /\ i + Len(separator) - 1 <= Len(text)
    /\ \A k \in 1..Len(separator) : text[i + k - 1] = separator[k]

\* the characters of text as one-character pieces
RECURSIVE Characters(_, _)
Characters(text, i) ==
    IF i > Len(text) THEN <<>> ELSE << <<text[i]>> >> \o Characters(text, i + 1)

\* re.split with the separator kept at the start of the piece after it,
\* from position i on; piece is the piece being read
RECURSIVE SplitKeeping(_, _, _, _)
SplitKeeping(text, separator, i, piece) ==
    IF i > Len(text) THEN <<piece>>
    ELSE IF MatchAt(text, separator, i)
    THEN <<piece>> \o SplitKeeping(text, separator, i + Len(separator), separator)
    ELSE SplitKeeping(text, separator, i + 1, Append(piece, text[i]))

RECURSIVE NonEmpty(_, _)
NonEmpty(pieces, i) ==
    IF i > Len(pieces) THEN <<>>
    ELSE (IF pieces[i] = <<>> THEN <<>> ELSE <<pieces[i]>>) \o NonEmpty(pieces, i + 1)

\* the splits of text at separator, empty ones left out
SplitWithSeparator(text, separator) ==
    IF separator = <<>> THEN Characters(text, 1)
    ELSE NonEmpty(SplitKeeping(text, separator, 1, <<>>), 1)

RECURSIVE Concat(_, _)
Concat(pieces, i) ==
    IF i > Len(pieces) THEN <<>> ELSE pieces[i] \o Concat(pieces, i + 1)

\* _join_docs: the pieces joined and stripped, nothing when that is empty
JoinDocs(current_doc) ==
    LET text == Strip(Concat(current_doc, 1))
    IN  IF text = <<>> THEN <<>> ELSE <<text>>

\* the while loop of _merge_splits: pieces leave the front of current_doc
\* while more than the overlap is held, or the next piece does not fit
RECURSIVE DropFront(_, _, _)
DropFront(current_doc, total, len) ==
    IF total > ChunkOverlap \/ (total + len > ChunkSize /\ total > 0)
    THEN DropFront(Tail(current_doc), total - Len(Head(current_doc)), len)
    ELSE [current_doc |-> current_doc, total |-> total]

\* _merge_splits(splits, ""), from split i on
RECURSIVE MergeSplits(_, _, _, _)
MergeSplits(splits, i, current_doc, total) ==
    IF i > Len(splits) THEN JoinDocs(current_doc)
    ELSE LET d == splits[i]
             full == total + Len(d) > ChunkSize /\ current_doc # <<>>
             kept == IF full THEN DropFront(current_doc, total, Len(d))
                     ELSE [current_doc |-> current_doc, total |-> total]
         IN  (IF full THEN JoinDocs(current_doc) ELSE <<>>)
                \o MergeSplits(splits, i + 1, Append(kept.current_doc, d),
                               kept.total + Len(d))

\* the first separator, from the k-th on, that stands in text; the last when
\* none does
RECURSIVE SeparatorFor(_, _)
SeparatorFor(text, k) ==
    IF k >= Len(Separators)
       \/ \E i \in 1..Len(text) : MatchAt(text, Separators[k], i)
    THEN k
    ELSE SeparatorFor(text, k + 1)

\* _split_text(text, separators[k:]); SplitPieces goes through the splits:
\* those shorter than the chunk size are collected and merged, a longer one
\* is split with the separators that follow
RECURSIVE SplitText(_, _)
RECURSIVE SplitPieces(_, _, _, _)
SplitPieces(splits, i, next, good_splits) ==
    IF i > Len(splits)
    THEN MergeSplits(good_splits, 1, <<>>, 0)
    ELSE IF Len(splits[i]) < ChunkSize
    THEN SplitPieces(splits, i + 1, next, Append(good_splits, splits[i]))
    ELSE MergeSplits(good_splits, 1, <<>>, 0)
            \o (IF next > Len(Separators) THEN <<splits[i]>>
                ELSE SplitText(splits[i], next))
            \o SplitPieces(splits, i + 1, next, <<>>)

SplitText(text, k) ==
    LET at == SeparatorFor(text, k)
    IN  SplitPieces(SplitWithSeparator(text, Separators[at]), 1, at + 1, <<>>)

\* split_into_chunks(text)
SplitIntoChunks(text) == SplitText(CleanText(text), 1)

\* the text extract_text returned, before split_into_chunks is called
InitSplit ==
    /\ InitEmbedder
    /\ InitConstructed
    /\ vector_store = <<>> /\ documents = <<>>
    /\ Document = <<>> /\ DocumentChunk = {} /\ next_id = 1 /\ pinecone_index = {}
    /\ op_last \in {[op |-> "extract_text", text |-> t] : t \in RawTexts}

\* chunks = self.split_into_chunks(text)
SplitCall ==
    /\ op_last.op = "extract_text"
    /\ op_last' = [op |-> "split_into_chunks", text |-> op_last.text,
                   cleaned |-> CleanText(op_last.text),
                   chunks |-> SplitIntoChunks(op_last.text)]
    /\ UNCHANGED <<Document, DocumentChunk, next_id, pinecone_index>>
    /\ UNCHANGED <<embVars, storeVars, initVars, threadVars>>

NextSplit == SplitCall

SpecSplit == InitSplit /\ [][NextSplit]_vars

(***************************************************************************)
(* ask while other requests use the embedder                               *)
(***************************************************************************)
\* _get_embedding(text) run by another request, between two steps of ask: it
\* reads or fills the shared cache, and may evict
OtherGetEmbedding(text, ok) ==
    /\ embedding_cache' = GetEmbedding(embedding_cache, text, ok).cache
    /\ UNCHANGED <<enc_last, ret_ever, calls_ever, ret_since, calls_since,
                   inserted_at>>
    /\ UNCHANGED <<docVars, storeVars, initVars, threadVars>>

OtherRequest == \E text \in Texts, ok \in BOOLEAN : OtherGetEmbedding(text, ok)

NextAskShared == Begin_ask \/ Decide \/ Generate \/ OtherRequest

SpecAskShared == InitE2E /\ [][NextAskShared]_vars

(***************************************************************************)
(* generate_response on any message list                                   *)
(***************************************************************************)
ROLE_CHOICES == {"user", "assistant", "system"}

\* message lists a caller can pass: any roles, the content of a message
\* tells the messages apart
RECURSIVE MessageList(_, _)
MessageList(roles, i) ==
    IF i > Len(roles) THEN <<>>
    ELSE << [role |-> roles[i], content |-> <<Digit(i)>>] >> \o MessageList(roles, i + 1)

MessageLists ==
    {MessageList(roles, 1) :
        roles \in UNION { [1..n -> ROLE_CHOICES] : n \in 0..MaxMessages }}

\* what chat.completions.create does for a generation: it raises, or answers
GenerationReplies ==
    { [kind |-> "error", text |-> <<>>],
      [kind |-> "content", text |-> <<" ", "y", "E", "s", "\n">>] }

\* the arguments of a generate_response call, before the call
InitGen ==
    /\ InitEmbedder
    /\ InitConstructed
    /\ InitStores
    /\ Document = <<>> /\ DocumentChunk = {} /\ next_id = 1 /\ pinecone_index = {}
    /\ op_last \in {[op |-> "caller", messages |-> m, query |-> q, temperature |-> t] :
                        m \in MessageLists, q \in Queries \cup {""}, t \in {50, 70}}

\* response = generate_response(messages, query, temperature)
GenerateCall ==
    /\ op_last.op = "caller"
    /\ \E embed_ok \in BOOLEAN, reply \in GenerationReplies :
          LET g == GenerateResponse(vector_store, documents, embedding_cache,
                                    op_last.messages, op_last.query,
                                    op_last.temperature, embed_ok, reply)
          IN  /\ embedding_cache' = g.cache
              /\ op_last' = [op |-> "generate_response",
                             passed |-> op_last.messages, query |-> op_last.query,
                             messages |-> g.messages, sent |-> g.sent,
                             context |-> g.context, spliced |-> g.spliced,
                             response |-> g.ret]
    /\ UNCHANGED <<enc_last, ret_ever, calls_ever, ret_since, calls_since,
                   inserted_at>>
    /\ UNCHANGED <<Document, DocumentChunk, next_id, pinecone_index>>
    /\ UNCHANGED <<storeVars, initVars, threadVars>>

NextGen == GenerateCall

SpecGen == InitGen /\ [][NextGen]_vars

(***************************************************************************)
(* _get_conversation_messages over the Message rows of a conversation      *)
(***************************************************************************)
\* the Message rows of one conversation, in the order of their ids, each
\* with a role and one of three timestamps; the content of a row tells the
\* rows apart
MessageTables ==
    UNION { [1..n -> ROLE_CHOICES \X (1..3)] : n \in 0..MaxMessages }

RECURSIVE MessageRows(_, _)
MessageRows(table, i) ==
    IF i > Len(table) THEN <<>>
    ELSE << [role |-> table[i][1], content |-> <<Digit(i)>>,
             timestamp |-> table[i][2]] >> \o MessageRows(table, i + 1)

RECURSIVE Arranged(_, _, _)
Arranged(rows, order, i) ==
    IF i > Len(order) THEN <<>>
    ELSE <<rows[order[i]]>> \o Arranged(rows, order, i + 1)

\* Message.objects.filter(conversation=conversation).order_by('timestamp'):
\* the rows by timestamp; rows of one timestamp come in any order
OrderByTimestamp(rows) ==
    LET n == Len(rows)
        orders == {o \in [1..n -> 1..n] :
                      /\ \A i, j \in 1..n : i # j => o[i] # o[j]
                      /\ \A i \in 1..(n - 1) :
                            rows[o[i]].timestamp <= rows[o[i + 1]].timestamp}
    IN  {Arranged(rows, o, 1) : o \in orders}

\* the rows a conversation holds, before the call
InitTurns ==
    /\ InitEmbedder
    /\ InitConstructed
    /\ vector_store = <<>> /\ documents = <<>>
    /\ Document = <<>> /\ DocumentChunk = {} /\ next_id = 1 /\ pinecone_index = {}
    /\ op_last \in {[op |-> "conversation", rows |-> MessageRows(t, 1)] : t \in MessageTables}

\* messages = self._get_conversation_messages(conversation)
GetTurns ==
    /\ op_last.op = "conversation"
    /\ \E db_messages \in OrderByTimestamp(op_last.rows) :
          op_last' = [op |-> "_get_conversation_messages", rows |-> op_last.rows,
                      db_messages |-> db_messages,
                      ret |-> GetConversationMessages(db_messages)]
    /\ UNCHANGED <<Document, DocumentChunk, next_id, pinecone_index>>
    /\ UNCHANGED <<embVars, storeVars, initVars, threadVars>>

NextTurns == GetTurns

SpecTurns == InitTurns /\ [][NextTurns]_vars

(***************************************************************************)
(* _get_embedding called by two request threads at once                    *)
(***************************************************************************)
\* what a step of _get_embedding leaves alone
restOfEmbedder ==
    <<enc_last, ret_ever, calls_ever, ret_since, calls_since, inserted_at,
      pinecone_client, index_handle, made, holders, docVars, storeVars, initVars>>

\* cache.pop(key) of a key that is there
CacheRemove(cache, key) == SelectSeq(cache, LAMBDA e : e[1] # key)

Returned(t, result) ==
    frames' = [frames EXCEPT ![t] = [pc |-> "idle", text |-> frames[t].text,
                                     key |-> "", result |-> result]]

Goto(t, where) == frames' = [frames EXCEPT ![t].pc = where]

\* a thread enters _get_embedding(text)
GetEmbeddingCall(t, text) ==
    /\ frames[t].pc = "idle"
    /\ frames' = [frames EXCEPT ![t] = [pc |-> "test", text |-> text,
                                        key |-> "", result |-> "none"]]
    /\ UNCHANGED embedding_cache
    /\ UNCHANGED restOfEmbedder

\* if text in _embedding_cache:
TestCached(t) ==
    /\ frames[t].pc = "test"
    /\ Goto(t, IF InCache(embedding_cache, frames[t].text) THEN "read" ELSE "create")
    /\ UNCHANGED embedding_cache
    /\ UNCHANGED restOfEmbedder

\* return _embedding_cache[text]: outside the try, a KeyError leaves the call
ReadCached(t) ==
    /\ frames[t].pc = "read"
    /\ Returned(t, IF InCache(embedding_cache, frames[t].text)
                   THEN "cached vector" ELSE "KeyError raised")
    /\ UNCHANGED embedding_cache
    /\ UNCHANGED restOfEmbedder

\* self.client.embeddings.create(...): a failure ends in the except clause
ProviderCall(t, ok) ==
    /\ frames[t].pc = "create"
    /\ IF ok THEN Goto(t, "len") ELSE Returned(t, "zeros: provider failed")
    /\ UNCHANGED embedding_cache
    /\ UNCHANGED restOfEmbedder

\* if len(_embedding_cache) > 1000:
TestLen(t) ==
    /\ frames[t].pc = "len"
    /\ Goto(t, IF Len(embedding_cache) > CacheLimit THEN "iter" ELSE "insert")
    /\ UNCHANGED embedding_cache
    /\ UNCHANGED restOfEmbedder

\* next(iter(_embedding_cache))
FirstKey(t) ==
    /\ frames[t].pc = "iter"
    /\ IF embedding_cache = <<>>
       THEN Returned(t, "zeros: StopIteration")
       ELSE frames' = [frames EXCEPT ![t].pc = "pop",
                                     ![t].key = embedding_cache[1][1]]
    /\ UNCHANGED embedding_cache
    /\ UNCHANGED restOfEmbedder

\* _embedding_cache.pop(key): inside the try, a KeyError ends in the except
\* clause, which returns the zero vector
PopKey(t) ==
    /\ frames[t].pc = "pop"
    /\ IF InCache(embedding_cache, frames[t].key)
       THEN /\ embedding_cache' = CacheRemove(embedding_cache, frames[t].key)
            /\ Goto(t, "insert")
       ELSE /\ Returned(t, "zeros: KeyError in pop")
            /\ UNCHANGED embedding_cache
    /\ UNCHANGED restOfEmbedder

\* _embedding_cache[text] = embedding; return embedding
InsertEmbedding(t) ==
    /\ frames[t].pc = "insert"
    /\ embedding_cache' = CachePut(embedding_cache, frames[t].text,
                                   Embed(frames[t].text))
    /\ Returned(t, "embedding")
    /\ UNCHANGED restOfEmbedder

Call == \E t \in Threads, text \in Texts : GetEmbeddingCall(t, text)

Test == \E t \in Threads : TestCached(t)

Read == \E t \in Threads : ReadCached(t)

Provider == \E t \in Threads, ok \in BOOLEAN : ProviderCall(t, ok)

Length == \E t \in Threads : TestLen(t)

First == \E t \in Threads : FirstKey(t)

Pop == \E t \in Threads : PopKey(t)

Insert == \E t \in Threads : InsertEmbedding(t)

NextConc == Call \/ Test \/ Read \/ Provider \/ Length \/ First \/ Pop \/ Insert

SpecConc == InitEmb /\ [][NextConc]_vars

(***************************************************************************)
(* The Pinecone client and the Index handle, by request threads at once    *)
(***************************************************************************)
\* what a step on the client and the handle leaves alone
restOfHandles == <<frames, embVars, docVars, storeVars, initVars>>

\* a thread enters EmbeddingsService() and reaches `if _pinecone_client is None`
HandleBegin(t) ==
    /\ holders[t].pc = "idle"
    /\ holders' = [holders EXCEPT ![t] =
                      [pc |-> IF pinecone_client = 0 THEN "make client" ELSE "use client",
                       pinecone |-> 0, index |-> 0]]
    /\ UNCHANGED <<pinecone_client, index_handle, made>>
    /\ UNCHANGED restOfHandles

\* _pinecone_client = pinecone.Pinecone(...)
MakeClient(t) ==
    /\ holders[t].pc = "make client"
    /\ made' = [made EXCEPT !.clients = @ + 1]
    /\ pinecone_client' = made.clients + 1
    /\ holders' = [holders EXCEPT ![t].pc = "use client"]
    /\ UNCHANGED index_handle
    /\ UNCHANGED restOfHandles

\* self.pinecone = _pinecone_client; later get_index() reaches
\* `if _pinecone_index is None`
UseClient(t) ==
    /\ holders[t].pc = "use client"
    /\ holders' = [holders EXCEPT ![t].pinecone = pinecone_client,
                                  ![t].pc = IF index_handle = 0 THEN "make index"
                                            ELSE "return index"]
    /\ UNCHANGED <<pinecone_client, index_handle, made>>
    /\ UNCHANGED restOfHandles

\* _pinecone_index = self.pinecone.Index(self.index_name)
MakeIndex(t) ==
    /\ holders[t].pc = "make index"
    /\ made' = [made EXCEPT !.handles = @ + 1]
    /\ index_handle' = made.handles + 1
    /\ holders' = [holders EXCEPT ![t].pc = "return index"]
    /\ UNCHANGED pinecone_client
    /\ UNCHANGED restOfHandles

\* return _pinecone_index
ReturnIndex(t) ==
    /\ holders[t].pc = "return index"
    /\ holders' = [holders EXCEPT ![t].index = index_handle, ![t].pc = "idle"]
    /\ UNCHANGED <<pinecone_client, index_handle, made>>
    /\ UNCHANGED restOfHandles

Enter == \E t \in Threads : HandleBegin(t)

Client == \E t \in Threads : MakeClient(t)

Use == \E t \in Threads : UseClient(t)

Handle == \E t \in Threads : MakeIndex(t)

Return == \E t \in Threads : ReturnIndex(t)

NextHandle == Enter \/ Client \/ Use \/ Handle \/ Return

\* the process has started: no client, no handle
InitHandle ==
    /\ InitEmbedder
    /\ InitDocs
    /\ InitThreads
    /\ vector_store = <<>>
    /\ documents = <<>>
    /\ loaded = FALSE
    /\ remote_index = embedding_dimensions
    /\ pc = [t \in Threads |-> "idle"]
    /\ indexes = [t \in Threads |-> FALSE]
    /\ outcome = [t \in Threads |-> "none"]
    /\ create_requests = 0
    /\ inits = 0

SpecHandle == InitHandle /\ [][NextHandle]_vars

(***************************************************************************)
(* Claims about the embedder                                               *)
(***************************************************************************)
\* C2 (as stated): every call of _get_embedding with one text returns the
\* same vector, and all the calls with that text together issue one
\* provider call, whatever other calls come in between.
\* It is stated on the runs where the provider has not failed, where the
\* zero-vector fallback plays no part.
ProviderNeverFailed ==
    \A t \in Texts : Zeros(embedding_dimensions) \notin ret_ever[t]

C2_OneVectorOneCall ==
    ProviderNeverFailed =>
        \A t \in Texts : Cardinality(ret_ever[t]) <= 1 /\ calls_ever[t] <= 1

\* C2 (amended): while a text stays cached, every call with it since its
\* insertion returned the cached vector and the insertion's provider call
\* is the only one issued for it.
C2_CachedRepeat ==
    \A t \in Texts :
        InCache(embedding_cache, t) =>
            /\ ret_since[t] = {CacheGet(embedding_cache, t)}
            /\ calls_since[t] = 1

\* A repeated call hit the cache after other texts were encoded.
C2_Witness ==
    /\ enc_last.hit
    /\ Len(embedding_cache) >= 2
    /\ enc_last.text = embedding_cache[1][1]

\* A value that carries a degraded flag next to the vector.
Flagged(value) == "degraded" \in DOMAIN value

\* C3: when the provider fails, _get_embedding raises or returns a value
\* flagged as degraded.
C3_FailureVisible ==
    enc_last.failed => (enc_last.raised \/ Flagged(enc_last.ret))

(***************************************************************************)
(* Claims about ingestion, the index and retrieval                         *)
(***************************************************************************)
CompletedChunks ==
    {c \in DocumentChunk : c.document_id \in DOMAIN Document
                           /\ Document[c.document_id].status = "completed"}

\* the passages that score above a chunk for a query vector: vectors of the
\* store and chunks of completed documents
Outranking(query_embedding, chunk) ==
    LET mine == Similarity(query_embedding, Embed(chunk.content))
    IN  Cardinality({i \in 1..Len(vector_store) :
                        SimGT(Similarity(query_embedding, vector_store[i][2]), mine)})
        + Cardinality({c \in CompletedChunks :
                        SimGT(Similarity(query_embedding, Embed(c.content)), mine)})

\* C1: a retrieval whose query scores at or above the floor against a chunk
\* of a completed document, with fewer than max_chunks passages scoring
\* higher, has that chunk's text in its context.
C1_IngestedChunkRetrieved ==
    (op_last.op = "get_relevant_context" /\ ~op_last.degraded) =>
        \A c \in CompletedChunks :
            LET q == Embed(op_last.query)
            IN  (/\ SimGE(Similarity(q, Embed(c.content)), op_last.threshold)
                 /\ Outranking(q, c) < op_last.max_chunks)
                => \E i \in 1..Len(op_last.context) :
                       op_last.context[i].content = c.content

EntriesUnder(index, id) == {e \in index : e.id = id}

\* C4: every index entry holds the provider's embedding of its chunk's text,
\* never a zero vector; a store_document_chunk whose provider call fails
\* leaves the index and the chunk rows as they were, and an upload that
\* stops at such a chunk leaves it without entry and without embedding_id.
C4_NoFallbackStored ==
    [][ /\ \A e \in pinecone_index' :
              /\ e.values # Zeros(embedding_dimensions)
              /\ \E c \in DocumentChunk' :
                    c.embedding_id = e.id /\ e.values = Embed(c.content)
        /\ (op_last'.op = "store_document_chunk" /\ op_last'.provider_failed)
              => (pinecone_index' = pinecone_index /\ DocumentChunk' = DocumentChunk)
        /\ (op_last'.op = "upload_document" /\ op_last'.provider_failed)
              => LET id == ChunkId(op_last'.document_id, op_last'.chunk_number)
                 IN  /\ EntriesUnder(pinecone_index', id) = {}
                     /\ \A c \in ChunksOf(DocumentChunk', op_last'.document_id) :
                           c.chunk_number >= op_last'.chunk_number
                               => c.embedding_id = None
      ]_vars

\* An upload stored chunk 0 and stopped at chunk 1, whose provider call failed.
C4_Witness ==
    /\ op_last.op = "upload_document"
    /\ op_last.provider_failed
    /\ op_last.chunk_number = 1
    /\ EntriesUnder(pinecone_index, ChunkId(op_last.document_id, 0)) # {}
    /\ EntriesUnder(pinecone_index, ChunkId(op_last.document_id, 1)) = {}

IdArgs == 0..MaxIdArg

ChunkIdInjective ==
    \A d1 \in IdArgs, n1 \in IdArgs, d2 \in IdArgs, n2 \in IdArgs :
        ChunkId(d1, n1) = ChunkId(d2, n2) => (d1 = d2 /\ n1 = n2)

\* C5: distinct (document id, chunk number) pairs get distinct ids, and
\* however often chunks are stored the index holds exactly one entry per
\* stored chunk, under the chunk's id, with the vector and metadata of that
\* chunk.
C5_OneEntryPerChunk ==
    /\ ChunkIdInjective
    /\ Cardinality(pinecone_index)
          = Cardinality({c \in DocumentChunk : c.embedding_id # None})
    /\ \A c \in DocumentChunk :
          c.embedding_id # None =>
              LET es == EntriesUnder(pinecone_index, c.embedding_id)
                  doc == Document[c.document_id]
              IN  /\ Cardinality(es) = 1
                  /\ \A e \in es :
                        /\ e.values = Embed(c.content)
                        /\ e.metadata = [document_id |-> Str(c.document_id),
                                         chunk_number |-> c.chunk_number,
                                         document_title |-> doc.title,
                                         document_type |-> doc.file_type]

\* A chunk that was already stored has been stored again, next to another
\* stored chunk of its document.
C5_Witness ==
    /\ op_last.op = "store_document_chunk"
    /\ op_last.again
    /\ ~op_last.raised
    /\ Cardinality(EntriesUnder(pinecone_index,
                       ChunkId(op_last.document_id, op_last.chunk_number))) = 1
    /\ Cardinality({e \in pinecone_index :
                       e.metadata.document_id = Str(op_last.document_id)}) = 2

\* C6: delete_document never touches an index entry of another document
\* and adds none; when the document has no embedding ids, or none of them is
\* in the index, the index is left as it was and nothing is raised unless
\* the index service itself fails.
C6_DeleteAbsentNoOp ==
    [][ op_last'.op = "delete_document" =>
          /\ pinecone_index' \subseteq pinecone_index
          /\ \A e \in pinecone_index :
                e.metadata.document_id # Str(op_last'.document_id)
                    => e \in pinecone_index'
          /\ op_last'.ids \in {"no ids", "none present"}
                => /\ pinecone_index' = pinecone_index
                   /\ op_last'.raised => ~op_last'.index_ok
          /\ op_last'.ids = "no ids" => ~op_last'.raised
      ]_vars

\* A document whose entries were already gone was deleted again while the
\* index held entries of another document.
C6_Witness ==
    /\ op_last.op = "delete_document"
    /\ op_last.ids = "none present"
    /\ ~op_last.raised
    /\ pinecone_index # {}

\* C7: a query vector and a stored vector of different lengths are never
\* compared silently: get_relevant_context ends in a dimension error, it
\* does not turn the mismatch into an empty context.
C7_MismatchRejected ==
    op_last.op = "get_relevant_context" => ~op_last.hidden

QueryEmbedding ==
    IF op_last.degraded THEN Zeros(embedding_dimensions) ELSE Embed(op_last.query)

\* the passages: stored vectors that have a text in documents, with their score
Passages ==
    {<<vector_store[i][1], Similarity(QueryEmbedding, vector_store[i][2])>> :
        i \in {j \in 1..Len(vector_store) : vector_store[j][1] \in DOMAIN documents}}

\* C10: the context holds at most max_chunks passages, each scoring at or
\* above the floor, in descending order of score, and no passage left out
\* that scores at or above the floor scores higher than one included.
C10_TopKFloorOrder ==
    op_last.op = "get_relevant_context" =>
        LET ctx == op_last.context
            included == {ctx[i].chunk_id : i \in 1..Len(ctx)}
        IN  /\ Len(ctx) <= op_last.max_chunks
            /\ \A i \in 1..Len(ctx) : SimGE(ctx[i].similarity, op_last.threshold)
            /\ \A i \in 1..Len(ctx), j \in 1..Len(ctx) :
                  i < j => ~SimGT(ctx[j].similarity, ctx[i].similarity)
            /\ \A i \in 1..Len(ctx) :
                  <<ctx[i].chunk_id, ctx[i].similarity>> \in Passages
            /\ \A p \in Passages :
                  (p[1] \notin included /\ SimGE(p[2], op_last.threshold))
                      => \A i \in 1..Len(ctx) : ~SimGT(p[2], ctx[i].similarity)

\* A retrieval filled its max_chunks places with passages of different
\* scores, left out a passage above the floor and one below it.
C10_Witness ==
    /\ op_last.op = "get_relevant_context"
    /\ op_last.max_chunks >= 2
    /\ Len(op_last.context) = op_last.max_chunks
    /\ SimGT(op_last.context[1].similarity, op_last.context[2].similarity)
    /\ \E p \in Passages :
          /\ p[1] \notin {op_last.context[i].chunk_id : i \in 1..Len(op_last.context)}
          /\ SimGE(p[2], op_last.threshold)
    /\ \E p \in Passages : ~SimGE(p[2], op_last.threshold)

\* C8: however many EmbeddingsService() calls run, one after another or
\* interleaved, at most one create_index request is issued and none of them
\* fails because the index exists.
C8_OneCreateRequest ==
    /\ create_requests <= 1
    /\ \A t \in Threads : outcome[t] # "create_index failed: exists"

\* C9: an EmbeddingsService() call does not succeed on an index whose
\* dimension is not the one it asks for.
C9_FailFastOnDimension ==
    \A t \in Threads :
        outcome[t] = "constructed" => remote_index = embedding_dimensions

(***************************************************************************)
(* Claims about the cache's capacity and eviction                          *)
(***************************************************************************)
\* C17: after any sequence of _get_embedding calls the cache holds at most
\* its capacity of entries (1000 in the code, CacheLimit here).
C17_CacheBounded ==
    Len(embedding_cache) <= CacheLimit

AskReturned == op_last.op = "ask" /\ op_last.stage = "returned"

AskRaised == op_last.op = "ask" /\ op_last.stage = "raised"

AskDecided == op_last.op = "ask" /\ op_last.stage \in {"generating", "returned", "raised"}

\* no stored vector scores at or above the default floor against the query
NoPassageAtFloor(query) ==
    \A i \in 1..Len(vector_store) :
        ~SimGE(Similarity(Embed(query), vector_store[i][2]), 70)

\* C11: when nothing is stored, or no passage reaches the floor, the probe's
\* context is empty, the decision is false and made without raising, and ask
\* returns used_documents = False in ungrounded mode: the higher temperature
\* and the conversation's messages as they are.
C11_EmptyMeansUngrounded ==
    (AskDecided /\ (vector_store = <<>> \/ documents = <<>>
                    \/ NoPassageAtFloor(op_last.query))) =>
        /\ ~AskRaised
        /\ op_last.context = <<>>
        /\ ~op_last.has_document_answer
        /\ AskReturned =>
              /\ ~op_last.used_documents
              /\ op_last.temperature = 70
              /\ op_last.sent = op_last.messages

\* ask returned ungrounded over loaded stores none of whose passages reaches
\* the floor for a query that was embedded.
C11_Witness ==
    /\ AskReturned
    /\ vector_store # <<>> /\ documents # <<>>
    /\ NoPassageAtFloor(op_last.query)
    /\ ~op_last.degraded
    /\ ~op_last.used_documents
    /\ op_last.response.kind = "text"

\* C12: with an empty context the decision is false and no
\* chat.completions.create call was issued for it.
C12_EmptyContextNoCall ==
    (AskDecided /\ op_last.context = <<>>) =>
        /\ ~op_last.has_document_answer
        /\ op_last.decide_calls = 0
        /\ ~AskRaised

\* The context was empty over loaded stores, the decision came out false
\* though the evaluator would have replied YES.
C12_Witness ==
    /\ AskDecided
    /\ vector_store # <<>> /\ documents # <<>>
    /\ op_last.context = <<>>
    /\ op_last.decide_reply = [kind |-> "content", text |-> <<"Y", "E", "S">>]
    /\ ~op_last.has_document_answer

\* two characters that are the same letter, whatever their case
SameLetter(a, b) ==
    \/ a = b
    \/ {a, b} \in {{"y", "Y"}, {"e", "E"}, {"s", "S"}}

\* the reply holds y, e, s in a row, each in either case
HoldsYes(text) ==
    \E i \in 1..(Len(text) - 2) :
        /\ SameLetter(text[i], "Y")
        /\ SameLetter(text[i + 1], "E")
        /\ SameLetter(text[i + 2], "S")

\* C13: with a non-empty context and a reply from the evaluator, the decision
\* is true exactly when the reply contains "YES" in any case.
C13_YesDecides ==
    (AskDecided /\ op_last.context # <<>> /\ op_last.decide_reply.kind = "content") =>
        (op_last.has_document_answer <=> HoldsYes(op_last.decide_reply.text))

\* A lower-case yes inside a longer reply made the decision true.
C13_Witness ==
    /\ AskDecided
    /\ op_last.context # <<>>
    /\ op_last.decide_reply = [kind |-> "content", text |-> <<"e", "y", "e", "s">>]
    /\ op_last.has_document_answer

\* C14: no ask call ends in an exception.
C14_AskNeverRaises ==
    ~AskRaised

\* C15: when ask returns the error string of a failed generation call, the
\* flag it returns is false.
C15_ErrorMeansNoDocuments ==
    (AskReturned /\ op_last.response.kind = "error") => ~op_last.used_documents

\* C16: an ask call evaluates the decision once, and the decision fixes the
\* mode: true means temperature 0.5 and a context retrieval for the query,
\* false means temperature 0.7, the conversation's messages sent as they
\* are, no retrieval and nothing spliced.
C16_DecisionFixesMode ==
    /\ AskDecided => op_last.decisions = 1
    /\ AskReturned =>
          /\ op_last.used_documents = op_last.has_document_answer
          /\ op_last.generate_calls = 1
          /\ IF op_last.used_documents
             THEN /\ op_last.temperature = 50
                  /\ op_last.retrieved = op_last.query
             ELSE /\ op_last.temperature = 70
                  /\ op_last.sent = op_last.messages
                  /\ op_last.retrieved = ""
                  /\ ~op_last.spliced

\* A grounded ask replaced the system message by the one holding the context.
C16_Witness ==
    /\ AskReturned
    /\ op_last.used_documents
    /\ op_last.spliced
    /\ op_last.sent # op_last.messages
    /\ op_last.temperature = 50

(***************************************************************************)
(* Claims about concurrent requests                                        *)
(***************************************************************************)
\* C19: under every interleaving of two _get_embedding calls no call ends in
\* an error that comes from the cache (a KeyError at the read or at the pop,
\* an exhausted iterator), every entry maps a text to that text's embedding,
\* and the cache holds no more entries than calls made one after another
\* leave in it.
C19_ConcurrentCallsSafe ==
    /\ \A t \in Threads :
          frames[t].result \notin {"KeyError raised", "zeros: KeyError in pop",
                                   "zeros: StopIteration"}
    /\ \A i \in 1..Len(embedding_cache) :
          embedding_cache[i][2] = Embed(embedding_cache[i][1])
    /\ Len(embedding_cache) <= CacheLimit + 1

\* C20: however many constructions and get_index calls run, at most one
\* Pinecone client and one Index handle are constructed, and all callers
\* hold the same client and are returned the same handle.
C20_HandlesAreSingletons ==
    /\ made.clients <= 1
    /\ made.handles <= 1
    /\ \A t \in Threads, u \in Threads :
          /\ (holders[t].pinecone # 0 /\ holders[u].pinecone # 0)
                => holders[t].pinecone = holders[u].pinecone
          /\ (holders[t].index # 0 /\ holders[u].index # 0)
                => holders[t].index = holders[u].index

(***************************************************************************)
(* Claims about the life of a document                                     *)
(***************************************************************************)
\* the moves the status may make
StatusMoves ==
    { <<"pending", "processing">>, <<"processing", "completed">>,
      <<"processing", "failed">> }

\* every two statuses in a row of a trail are a move
TrailAllowed(trail) ==
    /\ Len(trail) >= 1
    /\ trail[1] = "pending"
    /\ \A i \in 1..(Len(trail) - 1) : <<trail[i], trail[i + 1]>> \in StatusMoves

\* C21: a document's status only moves pending -> processing -> completed
\* or failed: the statuses an upload assigns follow these moves and end in
\* the status the row keeps, and the status of a row that exists never
\* changes afterwards; a completed document stays completed until it is
\* deleted.
C21_StatusMoves ==
    [][ /\ \A d \in DOMAIN Document \cap DOMAIN Document' :
              Document'[d].status = Document[d].status
        /\ \A d \in DOMAIN Document' \ DOMAIN Document :
              /\ op_last'.op = "upload_document"
              /\ op_last'.document_id = d
              /\ TrailAllowed(op_last'.statuses)
              /\ Document'[d].status = op_last'.statuses[Len(op_last'.statuses)] ]_vars

C21_Witness ==
    /\ op_last.op = "upload_document"
    /\ op_last.statuses = <<"pending", "processing", "failed">>
    /\ \E d \in DOMAIN Document :
          d # op_last.document_id /\ Document[d].status = "completed"

\* C22: a document is completed only if every one of its chunks has its
\* embedding id and an entry under that id in the index; when extraction or
\* a chunk's embedding or upsert fails, the document is failed and its
\* error message is not empty.
C22_CompletedMeansAllStored ==
    /\ \A d \in DOMAIN Document :
          /\ Document[d].status \in {"completed", "failed"}
          /\ Document[d].status = "completed" =>
                \A c \in ChunksOf(DocumentChunk, d) :
                    /\ c.embedding_id = ChunkId(d, c.chunk_number)
                    /\ \E e \in pinecone_index : e.id = c.embedding_id
          /\ Document[d].status = "failed" => Document[d].error_message # ""
          /\ (\E c \in ChunksOf(DocumentChunk, d) : c.embedding_id = None)
                => Document[d].status = "failed"
    /\ (op_last.op = "upload_document" /\ (~op_last.process_ok \/ op_last.raised))
          => Document[op_last.document_id].status = "failed"

\* an upload whose second chunk failed after the first was stored
C22_Witness ==
    /\ op_last.op = "upload_document"
    /\ op_last.raised
    /\ op_last.chunk_number = 1
    /\ Document[op_last.document_id].status = "failed"
    /\ \E c \in ChunksOf(DocumentChunk, op_last.document_id) : c.embedding_id # None
    /\ \E c \in ChunksOf(DocumentChunk, op_last.document_id) : c.embedding_id = None

\* the index entries stored for a document
EntriesOf(index, d) == {e \in index : e.metadata.document_id = Str(d)}

\* C23: whatever the uploads before it did, once delete_document has removed a
\* document and its chunks no index entry of that document is left, and a
\* delete_document that leaves the document or entries of it behind has
\* reported an error.
C23_DeleteIsOneUnit ==
    /\ \A d \in 1..(next_id - 1) :
          d \notin DOMAIN Document =>
              /\ ChunksOf(DocumentChunk, d) = {}
              /\ EntriesOf(pinecone_index, d) = {}
    /\ op_last.op = "delete_document" =>
          ((op_last.document_id \in DOMAIN Document
            \/ EntriesOf(pinecone_index, op_last.document_id) # {})
           => op_last.reported)

\* a partially ingested document deleted with its entries
C23_Witness ==
    /\ op_last.op = "delete_document"
    /\ op_last.status = "failed"
    /\ op_last.ids = "some present"
    /\ op_last.deleted
    /\ op_last.document_id \notin DOMAIN Document

\* the upload a document row was made from
UploadTitled(title) == CHOOSE u \in Uploads : u.title = title

\* C24: after process() has made the n chunks of a document, their chunk
\* numbers are exactly 0..n-1, each on one row, and the row numbered i holds
\* the i-th chunk the chunker emitted.
C24_ChunkNumbersInOrder ==
    /\ \A d \in DOMAIN Document :
          LET rows == ChunksOf(DocumentChunk, d)
              chunks == UploadTitled(Document[d].title).chunks
              n == Len(chunks)
          IN  rows # {} =>
                /\ {c.chunk_number : c \in rows} = 0..(n - 1)
                /\ Cardinality(rows) = n
                /\ \A c \in rows : c.content = chunks[c.chunk_number + 1]
    /\ (op_last.op = "upload_document" /\ op_last.process_ok)
          => ChunksOf(DocumentChunk, op_last.document_id) # {}

C24_Witness ==
    /\ op_last.op = "upload_document"
    /\ op_last.process_ok
    /\ Cardinality(ChunksOf(DocumentChunk, op_last.document_id)) = 2
    /\ Document[op_last.document_id].title = "notes"

(***************************************************************************)
(* Claims about the turn list                                              *)
(***************************************************************************)
\* the row a turn was made from
RowOf(rows, turn) == CHOOSE i \in 1..Len(rows) : rows[i].content = turn.content

\* the turns are the rows, each once, with its role, by timestamp
ListsRows(turns, rows) ==
    /\ Len(turns) = Len(rows)
    /\ \A i \in 1..Len(turns) : \E k \in 1..Len(rows) : rows[k].content = turns[i].content
    /\ {RowOf(rows, turns[i]) : i \in 1..Len(turns)} = 1..Len(rows)
    /\ \A i \in 1..Len(turns) : turns[i].role = rows[RowOf(rows, turns[i])].role
    /\ \A i \in 1..Len(turns) : DOMAIN turns[i] = {"role", "content"}
    /\ \A i, j \in 1..Len(turns) :
          i < j => rows[RowOf(rows, turns[i])].timestamp
                      <= rows[RowOf(rows, turns[j])].timestamp

\* C25: the turn list holds the stored messages in timestamp order and
\* always a system turn: when no stored message is a system message the
\* default one comes first and the stored ones follow, and when one is,
\* the list is the stored messages and nothing else.
C25_TurnsInOrderWithSystem ==
    op_last.op = "_get_conversation_messages" =>
        LET rows == op_last.rows
            ret == op_last.ret
        IN  /\ \E i \in 1..Len(ret) : ret[i].role = "system"
            /\ IF \E k \in 1..Len(rows) : rows[k].role = "system"
               THEN ListsRows(ret, rows)
               ELSE /\ Len(ret) = Len(rows) + 1
                    /\ ret[1] = [role |-> "system",
                                 content |-> <<"default system prompt">>]
                    /\ ListsRows(Tail(ret), rows)

\* rows stored out of timestamp order, a system message among them, not first
C25_Witness ==
    /\ op_last.op = "_get_conversation_messages"
    /\ Len(op_last.rows) = 3
    /\ op_last.rows[1].timestamp > op_last.rows[2].timestamp
    /\ op_last.rows[3].role = "system"
    /\ op_last.ret[1].role # "system"

(***************************************************************************)
(* Claims about failures during retrieval                                  *)
(***************************************************************************)
\* C27: when the embedding provider or the similarity computation fails
\* during get_relevant_context, the call ends in an error that reaches its
\* caller; the failure is not turned into an empty or shorter context.
C27_RetrievalFailureRaised ==
    (op_last.op = "get_relevant_context" /\ (op_last.degraded \/ op_last.hidden))
        => op_last.raised

(***************************************************************************)
(* Claims about generate_response and the caller's list                    *)
(***************************************************************************)
\* C29: generate_response leaves the list it was passed as it was: same
\* length, same elements, same order, with or without a context, whether
\* the generation call answers or raises; what is sent is that list, or,
\* with a context, that list with its first system message replaced by the
\* grounded one, or with the grounded one put first when it has none.
C29_CallerListUnchanged ==
    op_last.op = "generate_response" =>
        LET passed == op_last.passed
            sent == op_last.sent
            k == FirstSystem(passed, 1)
        IN  /\ op_last.messages = passed
            /\ ~op_last.spliced => sent = passed
            /\ (op_last.spliced /\ k # 0) =>
                  /\ Len(sent) = Len(passed)
                  /\ sent[k] = GroundedSystemMessage(op_last.context)
                  /\ \A i \in 1..Len(passed) : i # k => sent[i] = passed[i]
            /\ (op_last.spliced /\ k = 0) =>
                  sent = <<GroundedSystemMessage(op_last.context)>> \o passed

\* a context was spliced over a system message that is not the first message,
\* and the generation call raised
C29_Witness ==
    /\ op_last.op = "generate_response"
    /\ op_last.spliced
    /\ FirstSystem(op_last.passed, 1) = 2
    /\ op_last.response.kind = "error"

(***************************************************************************)
(* Claims about ask among other requests                                   *)
(***************************************************************************)
\* C28: when ask returns used_documents = True with a generated answer, the
\* generation request carried document context: the retrieval made for it
\* was not empty and the grounded system message is among the messages sent.
C28_UsedDocumentsMeansGrounded ==
    (AskReturned /\ op_last.used_documents /\ op_last.response.kind = "text") =>
        /\ op_last.spliced
        /\ \E i \in 1..Len(op_last.sent) :
              /\ op_last.sent[i].role = "system"
              /\ op_last.sent[i].content[1] = "answer based on provided documents"

(***************************************************************************)
(* Claims about the chunker                                                *)
(***************************************************************************)
\* no run of three newlines, no run of two spaces, no line that begins or
\* ends with a space
NormalForm(text) ==
    /\ \A i \in 1..(Len(text) - 2) :
          ~(text[i] = "\n" /\ text[i + 1] = "\n" /\ text[i + 2] = "\n")
    /\ \A i \in 1..(Len(text) - 1) : ~(text[i] = " " /\ text[i + 1] = " ")
    /\ \A i \in 1..Len(text) :
          text[i] = " " =>
              /\ i > 1 /\ text[i - 1] # "\n"
              /\ i < Len(text) /\ text[i + 1] # "\n"

\* C30: what _clean_text returns is in normal form, and _clean_text applied
\* to a text it returned gives that text back.
C30_CleanTextNormalForm ==
    op_last.op = "_clean_text" =>
        /\ NormalForm(op_last.ret)
        /\ op_last.cleaned_before => op_last.ret = op_last.text

\* the first k characters of next are the last k characters of chunk
OverlapsBy(chunk, next, k) ==
    /\ k <= Len(chunk) /\ k <= Len(next)
    /\ SubSeq(next, 1, k) = SubSeq(chunk, Len(chunk) - k + 1, Len(chunk))

\* C26: when the text is longer than the chunk size, every chunk after the
\* first begins with characters, at least one and at most chunk_overlap,
\* that end the chunk before it.
C26_AdjacentChunksOverlap ==
    (op_last.op = "split_into_chunks" /\ Len(op_last.cleaned) > ChunkSize) =>
        \A i \in 1..(Len(op_last.chunks) - 1) :
            \E k \in 1..ChunkOverlap :
                OverlapsBy(op_last.chunks[i], op_last.chunks[i + 1], k)

====
